---- MODULE Spec2Model ----
(***************************************************************************)
(* Flow-sensor calibration tools: the device firmware (Flowmeter.ino in    *)
(* its combined flow+HX711 and pulse-only variants, HX711Scale.ino) and    *)
(* the run controller of the web page (ws.onmessage and the button         *)
(* handlers of index.html).                                                *)
(*                                                                         *)
(* The firmware is one cooperative main loop preempted by one edge         *)
(* interrupt; pc is the main loop's position.  The serial line, the        *)
(* millisecond clock, the sensor edges and the HX711 conversions are the   *)
(* environment.                                                            *)
(***************************************************************************)
EXTENDS Integers, Sequences, FiniteSets, TLC

(* ---------------- bounds of the exploration ---------------- *)
MaxTime   == 1000      \* the millisecond clock stops here
MaxEdges  == 2         \* sensor edges per behaviour
MaxCmds   == 2         \* command bytes sent per behaviour
MaxFrames == 2         \* the clock stops once this many frames are out
MaxStartupTime == 3500 \* the clock of the startup specification stops here
MaxHostTime == 4500    \* performance.now() stops here
MaxPulse  == 2         \* the device counter seen by the page stops here
MaxRunPulse == 4       \* the same, in the specification of one capture
MaxSent   == 2         \* commands the page sends down the socket per behaviour

(* ---------------- program constants ---------------- *)
INTERVAL_MS       == 500     \* combined sketch
INTERVAL_MS_PULSE == 200     \* pulse-only sketch
SAMPLE_PERIOD_MS  == 50      \* HX711Scale sketch
TARE_READS        == 20
SOFT_AVG          == 8
BLINK_MS          == 50      \* delay(50) of the reset blink

\* unsigned long arithmetic is modular.  TLC's integers are 32-bit signed,
\* so the modulus is 2^30 instead of 2^32.
ULONG_MOD == 2^30

NO_FLOW_MS == 3000           \* index.html: wait before auto-stop
ALPHA_PCT  == 50             \* index.html: ALPHA = 0.5, in percent

\* what the specification asks of the firmware and the sketches do not have
MIN_PULSE_US     == 1000     \* debounce threshold ("on the order of 1 ms")
READY_TIMEOUT_MS == 3000     \* bounded readiness wait ("e.g. 3 s")

(* ---------------- inputs ---------------- *)
Variants  == {"combined", "pulse", "scale"}
CmdBytes  == {"r", "o", "c", "t"}
TickSteps == {500}           \* milliseconds the clock advances in one step
EdgeGaps  == {200, 5000}     \* microseconds between an edge and the one before
RawReads  == {8400}          \* raw HX711 reading of the untouched load cell
HostSteps == {1500}          \* milliseconds performance.now() advances in one step
CalMsgs   == {[delta |-> 1, elapsed |-> 1500, ppl |-> 1]}  \* 'cal' payloads

VARIABLES
  \* ---- firmware ----
  variant,        \* which sketch is flashed
  pc,             \* position of setup()/loop()
  i,              \* loop counter of the tare / averaging loop
  acc,            \* long acc
  offset,         \* long offset (tare)
  nowL,           \* const unsigned long now = millis()
  lastPrint,      \* static unsigned long lastPrint / t_last
  pulseCount,     \* volatile unsigned long pulseCount
  count,          \* unsigned long count (the frame's copy)
  intEnabled,     \* global interrupt flag (noInterrupts / interrupts)
  intPending,     \* an edge latched while interrupts were off
  valve,          \* VALVE_SIG_PIN
  led,            \* LED_PIN
  delayStart,     \* millis() when delay(50) began
  out,            \* lines printed on Serial, oldest first
  \* ---- environment of the firmware ----
  now,            \* millis()
  rx,             \* bytes buffered in Serial, oldest first
  ampPresent,     \* an HX711 that answers is wired
  ampRaw,         \* what scale.read() returns
  \* ---- history (observation only) ----
  edges,          \* rising edges seen on FLOW_PIN
  edgeGapUs,      \* microseconds between the last edge and the one before it
  tickedSinceEdge,\* the millisecond clock moved since the last edge
  sent,           \* bytes the host has sent
  consumed,       \* bytes Serial.read() has returned, oldest first
  resetsDone,     \* 'r' commands that have cleared the counter
  sinceReset,     \* countPulse() runs since the last clear (or boot)
  countedAtRead,  \* sinceReset when the frame in the making copied the counter
  readyAtDue,     \* what scale.is_ready() was when the frame in the making fell due
  \* ---- web page (index.html) ----
  armed, running, startPending,
  t0,             \* performance.now() when the run began
  lastPulse, lastTime, lastChange,
  filtPps,        \* <<>> is null, <<v>> the filtered rate in milli-pulses/s
  runs,           \* const runs=[]
  currentRun,     \* index into runs, 0 is null
  startDisabled, stopDisabled,
  toolsDisabled,  \* Reset, Reset all, Save CSV, Save PNG (enabled together)
  wsSent,         \* how many 'start', 'stop', 'reset' the page has sent
  \* ---- environment of the page ----
  hnow,           \* performance.now()
  devCount,       \* the device's pulse counter as the bridge streams it
  owed,           \* replies the bridge still owes: started, resetSent,
                  \* counterReset, cal
  \* ---- history of the page (observation only) ----
  ev,             \* the handler that ran last
  lastSeen,       \* <<>> or <<pulses of the last live frame>>
  resetTrack,     \* a Reset was clicked while Armed with a pending start and
                  \* only live frames have been handled since
  cancelled,      \* index of the run that was Running when Stop or Reset was
                  \* clicked last, 0 when there is none
  obs             \* the rate observations since the run went Running: raw
                  \* rate, filtPps after it, whether it was plotted

fwVars   == <<variant, pc, i, acc, offset, nowL, lastPrint, pulseCount, count,
              intEnabled, intPending, valve, led, delayStart, out>>
envVars  == <<now, rx, ampPresent, ampRaw>>
histVars == <<edges, edgeGapUs, tickedSinceEdge, sent, consumed, resetsDone,
              sinceReset, countedAtRead, readyAtDue>>
devVars  == <<fwVars, envVars, histVars>>
pageVars == <<armed, running, startPending, t0, lastPulse, lastTime,
              lastChange, filtPps, runs, currentRun, startDisabled,
              stopDisabled, toolsDisabled, wsSent>>
hostVars == <<pageVars, hnow, devCount, owed, ev, lastSeen, resetTrack,
              cancelled, obs>>
vars     == <<devVars, hostVars>>

(* ---------------- helpers ---------------- *)
\* a - b in unsigned long
SubUL(a, b) == (a - b + ULONG_MOD) % ULONG_MOD

\* C integer division (truncates toward zero)
TruncDiv(a, b) ==
  LET q == (IF a < 0 THEN -a ELSE a) \div (IF b < 0 THEN -b ELSE b)
  IN  IF (a < 0) = (b < 0) THEN q ELSE -q

Interval ==
  CASE variant = "combined" -> INTERVAL_MS
    [] variant = "pulse"    -> INTERVAL_MS_PULSE
    [] OTHER                -> SAMPLE_PERIOD_MS

\* Serial.println(F("..."))
TextLine(txt) ==
  [kind |-> "text", text |-> txt, ts |-> 0, count |-> 0,
   hasCount |-> FALSE, hasWeight |-> FALSE, net |-> 0]

\* the CSV / TSV data line.  net is raw - offset; the sketch prints
\* net / COUNTS_PER_GRAM with four decimals.
FrameLine(t, n, hc, hw, w) ==
  [kind |-> "frame", text |-> "", ts |-> t, count |-> n,
   hasCount |-> hc, hasWeight |-> hw, net |-> w]

Frames(s) == SelectSeq(s, LAMBDA l : l.kind = "frame")
Texts(s)  == SelectSeq(s, LAMBDA l : l.kind = "text")
Last(s)   == s[Len(s)]

\* what scale.is_ready() may return at one call: a wired HX711 is ready or
\* in the middle of a conversion, an absent one is never ready
IsReady == IF ampPresent THEN BOOLEAN ELSE {FALSE}

\* attachInterrupt() has run and the sketch has a flow sensor
Attached == pc # "setup" /\ variant # "scale"

(* ---------------- the interrupt handler ---------------- *)
countPulse ==
  /\ pulseCount' = (pulseCount + 1) % ULONG_MOD
  /\ sinceReset' = sinceReset + 1

(* ---------------- initial state ---------------- *)
\* the page as the script leaves it: nothing armed, every button disabled
PageInit ==
  /\ armed = FALSE /\ running = FALSE /\ startPending = FALSE
  /\ t0 = 0 /\ lastPulse = 0 /\ lastTime = 0 /\ lastChange = 0
  /\ filtPps = <<>>
  /\ runs = <<>> /\ currentRun = 0
  /\ startDisabled = TRUE /\ stopDisabled = TRUE /\ toolsDisabled = TRUE
  /\ wsSent = [start |-> 0, stop |-> 0, reset |-> 0]
  /\ hnow = 0
  /\ devCount = 0
  /\ owed = [started |-> 0, resetSent |-> 0, counterReset |-> 0, cal |-> 0]
  /\ ev = "load"
  /\ lastSeen = <<>>
  /\ resetTrack = FALSE
  /\ cancelled = 0
  /\ obs = <<>>

\* the firmware after power-up, before setup()
FwInit ==
  /\ variant \in Variants
  /\ pc = "setup"
  /\ i = 0 /\ acc = 0 /\ offset = 0
  /\ nowL = 0 /\ lastPrint = 0
  /\ pulseCount = 0 /\ count = 0
  /\ intEnabled = TRUE /\ intPending = FALSE
  /\ valve = "LOW" /\ led = "LOW" /\ delayStart = 0
  /\ out = <<>>
  /\ now = 0
  /\ rx = <<>>
  /\ ampPresent \in (IF variant = "pulse" THEN {FALSE} ELSE BOOLEAN)
  /\ ampRaw \in RawReads
  /\ edges = 0 /\ edgeGapUs = 0 /\ tickedSinceEdge = FALSE
  /\ sent = 0 /\ consumed = <<>>
  /\ resetsDone = 0 /\ sinceReset = 0 /\ countedAtRead = 0
  /\ readyAtDue = FALSE

Init == FwInit /\ PageInit

(* ---------------- setup() ---------------- *)
\* pinMode, attachInterrupt, valve closed, Serial.begin, scale.begin
setup_begin ==
  /\ pc = "setup"
  /\ valve' = "LOW" /\ led' = "LOW"
  /\ i' = 0 /\ acc' = 0
  /\ pc' = IF variant = "pulse" THEN "banner" ELSE "tare"
  /\ UNCHANGED <<variant, offset, nowL, lastPrint, pulseCount, count,
                 intEnabled, intPending, delayStart, out>>
  /\ UNCHANGED <<envVars, histVars>>
  /\ UNCHANGED hostVars

\* while (!scale.is_ready()) {}  acc += scale.read();
\* the wait ends when the HX711 finishes a conversion, which an absent one
\* never does
tare_read ==
  /\ pc = "tare" /\ i < TARE_READS
  /\ ampPresent
  /\ acc' = acc + ampRaw
  /\ i' = i + 1
  /\ UNCHANGED <<variant, pc, offset, nowL, lastPrint, pulseCount, count,
                 intEnabled, intPending, valve, led, delayStart, out>>
  /\ UNCHANGED <<envVars, histVars>>
  /\ UNCHANGED hostVars

\* offset = acc / TARE_READS;  (the locals acc and i end here)
tare_done ==
  /\ pc = "tare" /\ i = TARE_READS
  /\ offset' = TruncDiv(acc, TARE_READS)
  /\ i' = 0 /\ acc' = 0
  /\ pc' = IF variant = "scale" THEN "check" ELSE "banner"
  /\ UNCHANGED <<variant, nowL, lastPrint, pulseCount, count,
                 intEnabled, intPending, valve, led, delayStart, out>>
  /\ UNCHANGED <<envVars, histVars>>
  /\ UNCHANGED hostVars

\* Serial.println(F("ready"));
banner ==
  /\ pc = "banner"
  /\ out' = Append(out, TextLine("ready"))
  /\ pc' = "cmd"
  /\ UNCHANGED <<variant, i, acc, offset, nowL, lastPrint, pulseCount, count,
                 intEnabled, intPending, valve, led, delayStart>>
  /\ UNCHANGED <<envVars, histVars>>
  /\ UNCHANGED hostVars

(* ---------------- loop(): incoming commands ---------------- *)
\* one turn of while (Serial.available() > 0) { char c = Serial.read(); ... }
cmd_read ==
  /\ pc = "cmd" /\ rx # <<>>
  /\ LET c == Head(rx) IN
       /\ rx' = Tail(rx)
       /\ consumed' = Append(consumed, c)
       /\ CASE c = "r" -> /\ pc' = "r_cli"
                          /\ UNCHANGED <<valve, out>>
            [] c = "o" -> /\ valve' = "HIGH"
                          /\ out' = Append(out, TextLine("valve-open"))
                          /\ UNCHANGED pc
            [] c = "c" -> /\ valve' = "LOW"
                          /\ out' = Append(out, TextLine("valve-closed"))
                          /\ UNCHANGED pc
            [] OTHER   -> UNCHANGED <<pc, valve, out>>
  /\ UNCHANGED <<variant, i, acc, offset, nowL, lastPrint, pulseCount, count,
                 intEnabled, intPending, led, delayStart>>
  /\ UNCHANGED <<now, ampPresent, ampRaw>>
  /\ UNCHANGED <<edges, edgeGapUs, tickedSinceEdge, sent, resetsDone,
                 sinceReset, countedAtRead, readyAtDue>>
  /\ UNCHANGED hostVars

\* a command loop that gives up while bytes are still buffered
cmd_done_early ==
  /\ pc = "cmd"
  /\ pc' = "check"
  /\ UNCHANGED <<variant, i, acc, offset, nowL, lastPrint, pulseCount, count,
                 intEnabled, intPending, valve, led, delayStart, out>>
  /\ UNCHANGED <<envVars, histVars>>
  /\ UNCHANGED hostVars

\* Serial.available() == 0: leave the while loop
cmd_done ==
  /\ pc = "cmd" /\ rx = <<>>
  /\ pc' = "check"
  /\ UNCHANGED <<variant, i, acc, offset, nowL, lastPrint, pulseCount, count,
                 intEnabled, intPending, valve, led, delayStart, out>>
  /\ UNCHANGED <<envVars, histVars>>
  /\ UNCHANGED hostVars

\* noInterrupts();
reset_cli ==
  /\ pc = "r_cli"
  /\ intEnabled' = FALSE
  /\ pc' = "r_clr"
  /\ UNCHANGED <<variant, i, acc, offset, nowL, lastPrint, pulseCount, count,
                 intPending, valve, led, delayStart, out>>
  /\ UNCHANGED <<envVars, histVars>>
  /\ UNCHANGED hostVars

\* a reset that acknowledges without clearing the counter
reset_clear_keep ==
  /\ pc = "r_clr"
  /\ sinceReset' = 0
  /\ resetsDone' = resetsDone + 1
  /\ pc' = "r_sei"
  /\ UNCHANGED <<variant, i, acc, offset, nowL, lastPrint, pulseCount, count,
                 intEnabled, intPending, valve, led, delayStart, out>>
  /\ UNCHANGED envVars
  /\ UNCHANGED <<edges, edgeGapUs, tickedSinceEdge, sent, consumed,
                 countedAtRead, readyAtDue>>
  /\ UNCHANGED hostVars

\* pulseCount = 0;
reset_clear ==
  /\ pc = "r_clr"
  /\ pulseCount' = 0
  /\ sinceReset' = 0
  /\ resetsDone' = resetsDone + 1
  /\ pc' = "r_sei"
  /\ UNCHANGED <<variant, i, acc, offset, nowL, lastPrint, count,
                 intEnabled, intPending, valve, led, delayStart, out>>
  /\ UNCHANGED envVars
  /\ UNCHANGED <<edges, edgeGapUs, tickedSinceEdge, sent, consumed,
                 countedAtRead, readyAtDue>>
  /\ UNCHANGED hostVars

\* interrupts();  a latched edge is served at once
reset_sei ==
  /\ pc = "r_sei"
  /\ intEnabled' = TRUE
  /\ intPending' = FALSE
  /\ IF intPending THEN countPulse ELSE UNCHANGED <<pulseCount, sinceReset>>
  /\ pc' = "r_ack"
  /\ UNCHANGED <<variant, i, acc, offset, nowL, lastPrint, count,
                 valve, led, delayStart, out>>
  /\ UNCHANGED envVars
  /\ UNCHANGED <<edges, edgeGapUs, tickedSinceEdge, sent, consumed,
                 resetsDone, countedAtRead, readyAtDue>>
  /\ UNCHANGED hostVars

\* Serial.println(F("reset-ack"));  pulse-only: LED on, delay(50) begins
reset_ack ==
  /\ pc = "r_ack"
  /\ out' = Append(out, TextLine("reset-ack"))
  /\ IF variant = "pulse"
       THEN led' = "HIGH" /\ delayStart' = now /\ pc' = "r_delay"
       ELSE UNCHANGED <<led, delayStart>> /\ pc' = "cmd"
  /\ UNCHANGED <<variant, i, acc, offset, nowL, lastPrint, pulseCount, count,
                 intEnabled, intPending, valve>>
  /\ UNCHANGED <<envVars, histVars>>
  /\ UNCHANGED hostVars

\* delay(50) is over; digitalWrite(LED_PIN, LOW);
reset_blink_done ==
  /\ pc = "r_delay"
  /\ SubUL(now, delayStart) >= BLINK_MS
  /\ led' = "LOW"
  /\ delayStart' = 0
  /\ pc' = "cmd"
  /\ UNCHANGED <<variant, i, acc, offset, nowL, lastPrint, pulseCount, count,
                 intEnabled, intPending, valve, out>>
  /\ UNCHANGED <<envVars, histVars>>
  /\ UNCHANGED hostVars

(* ---------------- loop(): periodic data frame ---------------- *)
\* a test that adds the interval to the time of the last frame
IsDue_sum == now >= (lastPrint + Interval) % ULONG_MOD

\* now - lastPrint >= INTERVAL_MS, in unsigned long
IsDue == SubUL(now, lastPrint) >= Interval

\* const unsigned long now = millis();  if (now - lastPrint >= INTERVAL_MS)
\* HX711Scale: if (now - t_last >= SAMPLE_PERIOD_MS && scale.is_ready())
\*               { t_last = now; long acc = 0; ...
\* When the test fails loop() returns and its local now ends.
check ==
  /\ pc = "check"
  /\ \E ready \in IsReady :
       LET due == IsDue IN
         IF variant = "scale"
           THEN IF due /\ ready
                  THEN /\ nowL' = now
                       /\ lastPrint' = now
                       /\ i' = 0 /\ acc' = 0
                       /\ readyAtDue' = ready
                       /\ pc' = "avg"
                  ELSE /\ nowL' = 0
                       /\ readyAtDue' = FALSE
                       /\ UNCHANGED <<lastPrint, i, acc, pc>>
           ELSE /\ nowL' = IF due THEN now ELSE 0
                /\ pc' = IF due THEN "f_cli" ELSE "cmd"
                /\ readyAtDue' = (due /\ ready)
                /\ UNCHANGED <<lastPrint, i, acc>>
  /\ UNCHANGED <<variant, offset, pulseCount, count, intEnabled, intPending,
                 valve, led, delayStart, out>>
  /\ UNCHANGED envVars
  /\ UNCHANGED <<edges, edgeGapUs, tickedSinceEdge, sent, consumed,
                 resetsDone, sinceReset, countedAtRead>>
  /\ UNCHANGED hostVars

\* a frame read that leaves the interrupt enabled
frame_cli_open ==
  /\ pc = "f_cli"
  /\ pc' = "f_read"
  /\ UNCHANGED <<variant, i, acc, offset, nowL, lastPrint, pulseCount, count,
                 intEnabled, intPending, valve, led, delayStart, out>>
  /\ UNCHANGED <<envVars, histVars>>
  /\ UNCHANGED hostVars

\* noInterrupts();
frame_cli ==
  /\ pc = "f_cli"
  /\ intEnabled' = FALSE
  /\ pc' = "f_read"
  /\ UNCHANGED <<variant, i, acc, offset, nowL, lastPrint, pulseCount, count,
                 intPending, valve, led, delayStart, out>>
  /\ UNCHANGED <<envVars, histVars>>
  /\ UNCHANGED hostVars

\* a frame read that also clears the counter (count-and-clear)
frame_read_clearing ==
  /\ pc = "f_read"
  /\ count' = pulseCount
  /\ pulseCount' = 0
  /\ countedAtRead' = sinceReset
  /\ pc' = "f_sei"
  /\ UNCHANGED <<variant, i, acc, offset, nowL, lastPrint,
                 intEnabled, intPending, valve, led, delayStart, out>>
  /\ UNCHANGED envVars
  /\ UNCHANGED <<edges, edgeGapUs, tickedSinceEdge, sent, consumed,
                 resetsDone, sinceReset, readyAtDue>>
  /\ UNCHANGED hostVars

\* unsigned long count = pulseCount;
frame_read ==
  /\ pc = "f_read"
  /\ count' = pulseCount
  /\ countedAtRead' = sinceReset
  /\ pc' = "f_sei"
  /\ UNCHANGED <<variant, i, acc, offset, nowL, lastPrint, pulseCount,
                 intEnabled, intPending, valve, led, delayStart, out>>
  /\ UNCHANGED envVars
  /\ UNCHANGED <<edges, edgeGapUs, tickedSinceEdge, sent, consumed,
                 resetsDone, sinceReset, readyAtDue>>
  /\ UNCHANGED hostVars

\* interrupts();  combined: long acc = 0; and the averaging loop begins
frame_sei ==
  /\ pc = "f_sei"
  /\ intEnabled' = TRUE
  /\ intPending' = FALSE
  /\ IF intPending THEN countPulse ELSE UNCHANGED <<pulseCount, sinceReset>>
  /\ IF variant = "combined"
       THEN i' = 0 /\ acc' = 0 /\ pc' = "avg"
       ELSE UNCHANGED <<i, acc>> /\ pc' = "emit"
  /\ UNCHANGED <<variant, offset, nowL, lastPrint, count,
                 valve, led, delayStart, out>>
  /\ UNCHANGED envVars
  /\ UNCHANGED <<edges, edgeGapUs, tickedSinceEdge, sent, consumed,
                 resetsDone, countedAtRead, readyAtDue>>
  /\ UNCHANGED hostVars

\* combined: while (!scale.is_ready()) {}  acc += scale.read();
\* HX711Scale: acc += scale.read();  (the library's read() waits for ready)
avg_read ==
  /\ pc = "avg" /\ i < SOFT_AVG
  /\ ampPresent
  /\ acc' = acc + ampRaw
  /\ i' = i + 1
  /\ UNCHANGED <<variant, pc, offset, nowL, lastPrint, pulseCount, count,
                 intEnabled, intPending, valve, led, delayStart, out>>
  /\ UNCHANGED <<envVars, histVars>>
  /\ UNCHANGED hostVars

\* the averaging loop ends
avg_done ==
  /\ pc = "avg" /\ i = SOFT_AVG
  /\ pc' = "emit"
  /\ UNCHANGED <<variant, i, acc, offset, nowL, lastPrint, pulseCount, count,
                 intEnabled, intPending, valve, led, delayStart, out>>
  /\ UNCHANGED <<envVars, histVars>>
  /\ UNCHANGED hostVars

\* long raw = acc / SOFT_AVG;  g = (raw - offset) / COUNTS_PER_GRAM;
\* Serial.print(now) ... Serial.println(...);  lastPrint = now;
\* loop() returns: its locals now, count, acc and i end here, and with them
\* what was observed of the frame in the making.
emit ==
  /\ pc = "emit"
  /\ LET raw == TruncDiv(acc, SOFT_AVG) IN
       out' = Append(out,
                CASE variant = "combined" ->
                       FrameLine(nowL, count, TRUE, TRUE, raw - offset)
                  [] variant = "pulse" ->
                       FrameLine(nowL, count, TRUE, FALSE, 0)
                  [] OTHER ->
                       FrameLine(nowL, 0, FALSE, TRUE, raw - offset))
  /\ lastPrint' = IF variant = "scale" THEN lastPrint ELSE nowL
  /\ pc' = IF variant = "scale" THEN "check" ELSE "cmd"
  /\ nowL' = 0 /\ count' = 0 /\ acc' = 0 /\ i' = 0
  /\ countedAtRead' = 0 /\ readyAtDue' = FALSE
  /\ UNCHANGED <<variant, offset, pulseCount,
                 intEnabled, intPending, valve, led, delayStart>>
  /\ UNCHANGED envVars
  /\ UNCHANGED <<edges, edgeGapUs, tickedSinceEdge, sent, consumed,
                 resetsDone, sinceReset>>
  /\ UNCHANGED hostVars

(* ---------------- environment of the firmware ---------------- *)
\* millis() advances by d while the exploration lets it; it is 0 when
\* setup() begins
TickIf(d, allowed) ==
  /\ pc # "setup"
  /\ allowed
  /\ now' = (now + d) % ULONG_MOD
  /\ tickedSinceEdge' = (edges > 0)
  /\ UNCHANGED fwVars
  /\ UNCHANGED <<rx, ampPresent, ampRaw>>
  /\ UNCHANGED <<edges, edgeGapUs, sent, consumed, resetsDone, sinceReset,
                 countedAtRead, readyAtDue>>
  /\ UNCHANGED hostVars

\* the clock stops at cap and once MaxFrames frames are out
TickTo(d, cap) == TickIf(d, now + d <= cap /\ Len(Frames(out)) < MaxFrames)

Tick(d) == TickTo(d, MaxTime)

\* the same clock, which also lets a delay(50) in progress come to its end
TickLive(d) ==
  TickIf(d, \/ (pc = "r_delay" /\ SubUL(now, delayStart) < BLINK_MS)
            \/ (now + d <= MaxTime /\ Len(Frames(out)) < MaxFrames))

\* the HX711 stops answering after startup
AmpDrop ==
  /\ ampPresent
  /\ pc \notin {"setup", "tare", "banner"}
  /\ ampPresent' = FALSE
  /\ UNCHANGED fwVars
  /\ UNCHANGED <<now, rx, ampRaw>>
  /\ UNCHANGED histVars
  /\ UNCHANGED hostVars

\* a rising edge on FLOW_PIN, g microseconds after the previous one
Edge(g) ==
  /\ variant # "scale"
  /\ edges < MaxEdges
  /\ (g < MIN_PULSE_US) => (edges > 0 /\ ~tickedSinceEdge)
  /\ edges' = edges + 1
  /\ edgeGapUs' = g
  /\ tickedSinceEdge' = FALSE
  /\ IF Attached
       THEN IF intEnabled
              THEN countPulse /\ UNCHANGED intPending
              ELSE intPending' = TRUE /\ UNCHANGED <<pulseCount, sinceReset>>
       ELSE UNCHANGED <<pulseCount, sinceReset, intPending>>
  /\ UNCHANGED <<variant, pc, i, acc, offset, nowL, lastPrint, count,
                 intEnabled, valve, led, delayStart, out>>
  /\ UNCHANGED envVars
  /\ UNCHANGED <<sent, consumed, resetsDone, countedAtRead, readyAtDue>>
  /\ UNCHANGED hostVars

\* the host writes one command byte
Send(b) ==
  /\ variant # "scale"
  /\ sent < MaxCmds
  /\ rx' = Append(rx, b)
  /\ sent' = sent + 1
  /\ UNCHANGED fwVars
  /\ UNCHANGED <<now, ampPresent, ampRaw>>
  /\ UNCHANGED <<edges, edgeGapUs, tickedSinceEdge, consumed, resetsDone,
                 sinceReset, countedAtRead, readyAtDue>>
  /\ UNCHANGED hostVars

(* ---------------- specification of the firmware ---------------- *)
Next ==
  \/ setup_begin \/ tare_read \/ tare_done \/ banner
  \/ cmd_read \/ cmd_done
  \/ reset_cli \/ reset_clear \/ reset_sei \/ reset_ack \/ reset_blink_done
  \/ check \/ frame_cli \/ frame_read \/ frame_sei
  \/ avg_read \/ avg_done \/ emit
  \/ \E d \in TickSteps : Tick(d)
  \/ \E g \in EdgeGaps : Edge(g)
  \/ \E b \in CmdBytes : Send(b)

Spec == Init /\ [][Next]_vars

(***************************************************************************)
(* The web page: run-time state, ws.onmessage and the button handlers.     *)
(* Times are performance.now() in whole milliseconds; a sample's x is      *)
(* now - t0 in milliseconds (the page divides by 1000); rates are in       *)
(* milli-pulses per second, rounded toward zero.  Text and chart updates   *)
(* are left out.                                                           *)
(***************************************************************************)

\* (pulses-lastPulse)/dt with dt=(now-lastTime)/1000
RawPps(dp, dtMs) == TruncDiv(dp * 1000000, dtMs)

\* filtPps = ALPHA*rawPps + (1-ALPHA)*filtPps, or rawPps when filtPps is null
Smooth(filt, raw) ==
  IF filt = <<>> THEN <<raw>>
  ELSE <<TruncDiv(ALPHA_PCT * raw + (100 - ALPHA_PCT) * filt[1], 100)>>

\* arm->running transition on first pulse
ArmToRun(pulses) == armed /\ ~running /\ pulses # lastPulse

\* a rate that is computed also when the count has not changed
HasRate_always(dtMs, pulses) == dtMs > 0

\* if(dt>0 && pulses!==lastPulse)
HasRate(dtMs, pulses) == dtMs > 0 /\ pulses # lastPulse

\* a plot that also takes the frame at the very start of the run
CanPlot_atStart(isRunning, cur, t, start) == isRunning /\ cur # 0 /\ t >= start

\* if(running && currentRun && now>t0)
CanPlot(isRunning, cur, t, start) == isRunning /\ cur # 0 /\ t > start

\* an auto-stop that fires as soon as the window is reached
AutoStop_early(isRunning, t, changed) == isRunning /\ t - changed >= NO_FLOW_MS

\* an auto-stop that does not ask whether a run is in progress
AutoStop_anytime(isRunning, t, changed) == t - changed > NO_FLOW_MS

\* auto-stop after NO_FLOW_MS of zero-increment
AutoStop(isRunning, t, changed) == isRunning /\ t - changed > NO_FLOW_MS

\* newRun(): the run object pushed on runs
NewRunObj == [data |-> <<>>, start |-> <<>>, end |-> <<>>, cal |-> <<>>]

\* the bridge's debts after one more / one fewer reply of kind k
Owe(k, n) == [owed EXCEPT ![k] = @ + n]

\* if(d.type==='live')
OnLive(pulses) ==
  LET toRun    == ArmToRun(pulses)
      mkRun    == toRun /\ startPending
      runs1    == IF mkRun
                    THEN Append(runs, [NewRunObj EXCEPT !.start = <<hnow>>])
                    ELSE runs
      cur1     == IF mkRun THEN Len(runs1) ELSE currentRun
      running1 == running \/ toRun
      t01      == IF toRun THEN hnow ELSE t0
      filt1    == IF toRun THEN <<>> ELSE filtPps
      dt       == hnow - lastTime
      rate     == HasRate(dt, pulses)
      filt2    == IF rate THEN Smooth(filt1, RawPps(pulses - lastPulse, dt))
                          ELSE filt1
      plot     == rate /\ CanPlot(running1, cur1, hnow, t01)
      runs2    == IF plot
                    THEN [runs1 EXCEPT ![cur1].data =
                            Append(@, [x |-> hnow - t01, y |-> filt2[1]])]
                    ELSE runs1
      change2  == IF pulses # lastPulse THEN hnow ELSE lastChange
      stop     == AutoStop(running1, hnow, change2)
  IN  /\ runs' = runs2
      /\ currentRun' = cur1
      /\ t0' = t01
      /\ filtPps' = filt2
      /\ lastChange' = change2
      /\ armed' = IF stop THEN FALSE ELSE armed
      /\ running' = IF stop THEN FALSE ELSE running1
      /\ startPending' = IF stop THEN FALSE
                         ELSE IF mkRun THEN FALSE ELSE startPending
      /\ wsSent' = IF stop THEN [wsSent EXCEPT !.stop = @ + 1] ELSE wsSent
      /\ lastPulse' = pulses
      /\ lastTime' = hnow
      /\ UNCHANGED <<startDisabled, stopDisabled, toolsDisabled>>

\* softReset(), on the flags and the current run
SoftResetRuns ==
  IF currentRun # 0 /\ runs[currentRun].end = <<>>
    THEN [runs EXCEPT ![currentRun].end = <<hnow>>]
    ELSE runs

\* if(d.msg==='serial-open')
OnSerialOpen ==
  /\ startDisabled' = FALSE
  /\ toolsDisabled' = FALSE
  /\ UNCHANGED <<armed, running, startPending, t0, lastPulse, lastTime,
                 lastChange, filtPps, runs, currentRun, stopDisabled, wsSent>>

\* if(d.msg==='counter-reset')
OnCounterReset ==
  LET wasPending == startPending IN
    /\ lastPulse' = 0 /\ lastTime' = hnow
    /\ runs' = SoftResetRuns
    /\ currentRun' = 0
    /\ running' = FALSE
    /\ armed' = wasPending
    /\ startPending' = wasPending
    /\ startDisabled' = IF wasPending THEN TRUE ELSE startDisabled
    /\ stopDisabled' = IF wasPending THEN FALSE ELSE stopDisabled
    /\ UNCHANGED <<t0, lastChange, filtPps, toolsDisabled, wsSent>>

\* a 'started' handler that forgets to leave Running
OnStarted_stillRunning ==
  /\ armed' = TRUE /\ startPending' = TRUE
  /\ lastTime' = hnow /\ lastChange' = hnow
  /\ lastPulse' = 0
  /\ startDisabled' = TRUE /\ stopDisabled' = FALSE
  /\ UNCHANGED <<running, t0, filtPps, runs, currentRun, toolsDisabled, wsSent>>

\* if(d.status==='started')
OnStarted ==
  /\ armed' = TRUE /\ running' = FALSE /\ startPending' = TRUE
  /\ lastTime' = hnow /\ lastChange' = hnow
  /\ lastPulse' = 0
  /\ startDisabled' = TRUE /\ stopDisabled' = FALSE
  /\ UNCHANGED <<t0, filtPps, runs, currentRun, toolsDisabled, wsSent>>

\* if(d.status==='reset-sent'): a text update only
OnResetSent == UNCHANGED pageVars

\* if(d.type==='cal')
OnCal(d) ==
  /\ armed' = FALSE /\ running' = FALSE
  /\ startDisabled' = FALSE /\ stopDisabled' = TRUE
  /\ runs' = IF currentRun # 0
               THEN [runs EXCEPT ![currentRun].end = <<hnow>>,
                                 ![currentRun].cal = <<d>>]
               ELSE runs
  /\ currentRun' = 0
  /\ startPending' = FALSE
  /\ UNCHANGED <<t0, lastPulse, lastTime, lastChange, filtPps,
                 toolsDisabled, wsSent>>

(* ---------------- messages of the bridge ---------------- *)
\* a handler other than the live one ends the tracking of a Reset click
Untracked == resetTrack' = FALSE

Live ==
  /\ OnLive(devCount)
  /\ ev' = "live"
  /\ lastSeen' = <<devCount>>
  /\ UNCHANGED <<hnow, devCount, owed, resetTrack>>
  /\ UNCHANGED <<cancelled, obs>>
  /\ UNCHANGED devVars

SerialOpen ==
  /\ startDisabled
  /\ OnSerialOpen
  /\ ev' = "serial-open"
  /\ Untracked
  /\ UNCHANGED <<hnow, devCount, owed, lastSeen>>
  /\ UNCHANGED <<cancelled, obs>>
  /\ UNCHANGED devVars

\* the device has cleared its counter and the bridge reports it
CounterReset ==
  /\ owed.counterReset > 0
  /\ OnCounterReset
  /\ devCount' = 0
  /\ owed' = Owe("counterReset", -1)
  /\ ev' = "counter-reset"
  /\ Untracked
  /\ UNCHANGED <<hnow, lastSeen>>
  /\ UNCHANGED <<cancelled, obs>>
  /\ UNCHANGED devVars

Started ==
  /\ owed.started > 0
  /\ OnStarted
  /\ owed' = [owed EXCEPT !.started = @ - 1, !.cal = @ + 1]
  /\ ev' = "started"
  /\ Untracked
  /\ UNCHANGED <<hnow, devCount, lastSeen>>
  /\ UNCHANGED <<cancelled, obs>>
  /\ UNCHANGED devVars

ResetSent ==
  /\ owed.resetSent > 0
  /\ OnResetSent
  /\ owed' = Owe("resetSent", -1)
  /\ ev' = "reset-sent"
  /\ UNCHANGED <<hnow, devCount, lastSeen, resetTrack>>
  /\ UNCHANGED <<cancelled, obs>>
  /\ UNCHANGED devVars

Cal(d) ==
  /\ owed.cal > 0
  /\ OnCal(d)
  /\ owed' = Owe("cal", -1)
  /\ ev' = "cal"
  /\ Untracked
  /\ UNCHANGED <<hnow, devCount, lastSeen>>
  /\ UNCHANGED <<cancelled, obs>>
  /\ UNCHANGED devVars

(* ---------------- button handlers ---------------- *)
\* the commands the page has sent down the socket so far
Sent == wsSent.start + wsSent.stop + wsSent.reset

\* startBtn.onclick
ClickStart ==
  /\ ~startDisabled
  /\ Sent < MaxSent
  /\ wsSent' = [wsSent EXCEPT !.start = @ + 1]
  /\ owed' = Owe("started", 1)
  /\ ev' = "click-start"
  /\ Untracked
  /\ UNCHANGED <<armed, running, startPending, t0, lastPulse, lastTime,
                 lastChange, filtPps, runs, currentRun, startDisabled,
                 stopDisabled, toolsDisabled>>
  /\ UNCHANGED <<hnow, devCount, lastSeen>>
  /\ UNCHANGED <<cancelled, obs>>
  /\ UNCHANGED devVars

\* stopBtn.onclick
ClickStop ==
  /\ ~stopDisabled
  /\ Sent < MaxSent
  /\ wsSent' = [wsSent EXCEPT !.stop = @ + 1]
  /\ armed' = FALSE /\ running' = FALSE /\ startPending' = FALSE
  /\ ev' = "click-stop"
  /\ Untracked
  /\ UNCHANGED <<t0, lastPulse, lastTime, lastChange, filtPps, runs,
                 currentRun, startDisabled, stopDisabled, toolsDisabled>>
  /\ UNCHANGED <<hnow, devCount, owed, lastSeen>>
  /\ cancelled' = IF running /\ currentRun # 0 THEN currentRun ELSE cancelled
  /\ UNCHANGED obs
  /\ UNCHANGED devVars

\* resetBtn.onclick
ClickReset ==
  /\ ~toolsDisabled
  /\ Sent < MaxSent
  /\ wsSent' = [wsSent EXCEPT !.reset = @ + 1]
  /\ owed' = [owed EXCEPT !.resetSent = @ + 1, !.counterReset = @ + 1]
  /\ ev' = "click-reset"
  /\ resetTrack' = (armed /\ ~running /\ startPending
                     /\ owed.counterReset = 0)
  /\ UNCHANGED <<armed, running, startPending, t0, lastPulse, lastTime,
                 lastChange, filtPps, runs, currentRun, startDisabled,
                 stopDisabled, toolsDisabled>>
  /\ UNCHANGED <<hnow, devCount, lastSeen>>
  /\ cancelled' = IF running /\ currentRun # 0 THEN currentRun ELSE cancelled
  /\ UNCHANGED obs
  /\ UNCHANGED devVars

\* resetAllBtn.onclick: ws.send('reset'); hardReset();
ClickResetAll ==
  /\ ~toolsDisabled
  /\ Sent < MaxSent
  /\ wsSent' = [wsSent EXCEPT !.reset = @ + 1]
  /\ owed' = [owed EXCEPT !.resetSent = @ + 1, !.counterReset = @ + 1]
  /\ armed' = FALSE /\ running' = FALSE /\ startPending' = FALSE
  /\ lastPulse' = 0 /\ lastTime' = hnow
  /\ currentRun' = 0
  /\ runs' = <<>>
  /\ ev' = "click-reset-all"
  /\ Untracked
  /\ UNCHANGED <<t0, lastChange, filtPps, startDisabled, stopDisabled,
                 toolsDisabled>>
  /\ UNCHANGED <<hnow, devCount, lastSeen>>
  /\ cancelled' = 0
  /\ UNCHANGED obs
  /\ UNCHANGED devVars

(* ---------------- environment of the page ---------------- *)
\* performance.now() advances
HostTick(d) ==
  /\ hnow + d <= MaxHostTime
  /\ hnow' = hnow + d
  /\ UNCHANGED <<pageVars, devCount, owed, ev, lastSeen, resetTrack,
                 cancelled, obs>>
  /\ UNCHANGED devVars

\* the sensor turns: the streamed counter grows, up to cap
DevPulseTo(cap) ==
  /\ devCount < cap
  /\ devCount' = devCount + 1
  /\ UNCHANGED <<pageVars, hnow, owed, ev, lastSeen, resetTrack,
                 cancelled, obs>>
  /\ UNCHANGED devVars

DevPulse == DevPulseTo(MaxPulse)

(* ---------------- specification of the page ---------------- *)
\* the firmware is left as flashed and never started
FwParked ==
  /\ FwInit
  /\ variant = "pulse"

HostInit == FwParked /\ PageInit

HostNext ==
  \/ Live \/ SerialOpen \/ CounterReset \/ Started \/ ResetSent
  \/ \E d \in CalMsgs : Cal(d)
  \/ ClickStart \/ ClickStop \/ ClickReset \/ ClickResetAll
  \/ \E d \in HostSteps : HostTick(d)
  \/ DevPulse

HostSpec == HostInit /\ [][HostNext]_vars

(* ---------------- specification of the page with progress ---------------- *)
\* the bridge answers a 'stop' with the result of the run
StopAnswered ==
  /\ wsSent.stop > 0
  /\ \E d \in CalMsgs : Cal(d)

\* the bridge delivers every reply it owes to a request of the page
HostSpecFair ==
  /\ HostInit /\ [][HostNext]_vars
  /\ WF_vars(Started)
  /\ WF_vars(CounterReset)
  /\ WF_vars(ResetSent)
  /\ WF_vars(StopAnswered)

(* ---------------- specification of one capture ---------------- *)
\* the live handler, with the rate observations of the run written down
RunLive ==
  /\ OnLive(devCount)
  /\ ev' = "live"
  /\ lastSeen' = <<devCount>>
  /\ LET dt   == hnow - lastTime
          kept == IF ArmToRun(devCount) THEN <<>> ELSE obs
      IN  obs' = IF HasRate(dt, devCount)
                   THEN Append(kept, [raw     |-> RawPps(devCount - lastPulse, dt),
                                      filt    |-> filtPps'[1],
                                      plotted |->
                                        /\ running \/ ArmToRun(devCount)
                                        /\ currentRun' # 0
                                        /\ hnow > t0'])
                   ELSE kept
  /\ UNCHANGED <<hnow, devCount, owed, resetTrack, cancelled>>
  /\ UNCHANGED devVars

\* a capture from the Start click on: live frames, the clock and the sensor
RunNext ==
  \/ SerialOpen \/ ClickStart \/ Started \/ RunLive
  \/ \E d \in HostSteps : HostTick(d)
  \/ DevPulseTo(MaxRunPulse)

RunSpec == HostInit /\ [][RunNext]_vars

(* ---------------- specification with progress ---------------- *)
\* the steps of setup() and loop(): the processor runs whichever is next
Loop ==
  \/ setup_begin \/ tare_read \/ tare_done \/ banner
  \/ cmd_read \/ cmd_done
  \/ reset_cli \/ reset_clear \/ reset_sei \/ reset_ack \/ reset_blink_done
  \/ check \/ frame_cli \/ frame_read \/ frame_sei
  \/ avg_read \/ avg_done \/ emit

LiveNext ==
  \/ Loop
  \/ \E d \in TickSteps : TickLive(d)
  \/ \E b \in CmdBytes : Send(b)
  \/ AmpDrop

\* the processor never halts and time passes
SpecLive ==
  /\ Init /\ [][LiveNext]_vars
  /\ WF_vars(Loop)
  /\ WF_vars(\E d \in TickSteps : TickLive(d))

(* ---------------- specification across the clock's wrap ---------------- *)
\* millis() shortly before it wraps to 0
WrapStart == ULONG_MOD - 300

\* the main loop after a long uptime: setup() is over, a frame has just been
\* printed at WrapStart; out holds that frame only
WrapInit ==
  /\ PageInit
  /\ variant \in Variants
  /\ pc = (IF variant = "scale" THEN "check" ELSE "cmd")
  /\ i = 0 /\ acc = 0
  /\ ampPresent = (variant # "pulse")
  /\ ampRaw \in RawReads
  /\ offset = (IF variant = "pulse" THEN 0 ELSE ampRaw)
  /\ nowL = 0 /\ lastPrint = WrapStart /\ now = WrapStart
  /\ pulseCount = 0 /\ count = 0
  /\ intEnabled = TRUE /\ intPending = FALSE
  /\ valve = "LOW" /\ led = "LOW" /\ delayStart = 0
  /\ out = <<FrameLine(WrapStart, 0, variant # "scale", variant # "pulse", 0)>>
  /\ rx = <<>>
  /\ edges = 0 /\ edgeGapUs = 0 /\ tickedSinceEdge = FALSE
  /\ sent = 0 /\ consumed = <<>>
  /\ resetsDone = 0 /\ sinceReset = 0 /\ countedAtRead = 0
  /\ readyAtDue = FALSE

\* the clock runs MaxTime on from WrapStart, through 0
TickWrap(d) ==
  TickIf(d, /\ SubUL(now, WrapStart) + d <= MaxTime
            /\ Len(Frames(out)) <= MaxFrames)

WrapNext ==
  \/ cmd_read \/ cmd_done
  \/ reset_cli \/ reset_clear \/ reset_sei \/ reset_ack \/ reset_blink_done
  \/ check \/ frame_cli \/ frame_read \/ frame_sei
  \/ avg_read \/ avg_done \/ emit
  \/ \E d \in TickSteps : TickWrap(d)
  \/ \E b \in CmdBytes : Send(b)

SpecWrap == WrapInit /\ [][WrapNext]_vars

(* ---------------- specification of the startup alone ---------------- *)
\* setup() up to the banner, with a clock that outlasts the readiness wait
StartupNext ==
  \/ setup_begin \/ tare_read \/ tare_done \/ banner
  \/ \E d \in TickSteps : TickTo(d, MaxStartupTime)

SpecStartup == Init /\ [][StartupNext]_vars

(***************************************************************************)
(* Properties                                                              *)
(***************************************************************************)
IsFrame(l)    == l.kind = "frame"
IsResetAck(l) == l.kind = "text" /\ l.text = "reset-ack"
\* no data frame strictly between positions a and b of out
NoFrameBetween(a, b) == \A j \in (a+1)..(b-1) : ~IsFrame(out[j])
\* no reset acknowledgement strictly between positions a and b of out
NoResetBetween(a, b) == \A j \in (a+1)..(b-1) : ~IsResetAck(out[j])
\* the main loop has just printed a data frame
EmitStep == pc = "emit" /\ pc' # "emit"

\* C1 (as claimed): the first periodic frame printed after a 'r' has been
\* processed reports pulse_count 0.
C1_FirstFrameAfterResetIsZero ==
  \A k \in 1..Len(out) : \A m \in 1..Len(out) :
    (k < m /\ IsResetAck(out[k]) /\ IsFrame(out[m]) /\ out[m].hasCount
       /\ NoFrameBetween(k, m))
    => out[m].count = 0

\* C1 (amended): a frame printed after a 'r' has been processed reports the
\* number of edges the interrupt handler has counted between the last reset
\* and the moment the frame copied the counter; it is 0 when no edge was
\* counted in between.
C1_FrameCountsSinceReset ==
  [][(EmitStep /\ variant # "scale" /\ resetsDone > 0)
       => (/\ IsFrame(Last(out'))
           /\ Last(out').count = countedAtRead
           /\ (sinceReset = 0 => Last(out').count = 0))]_vars

\* C1 witness: a frame that follows a reset acknowledgement and reports an
\* edge counted after the reset.
C1_Witness ==
  \E k \in 1..Len(out) : \E m \in 1..Len(out) :
    /\ k < m /\ IsResetAck(out[k]) /\ IsFrame(out[m])
    /\ NoFrameBetween(k, m) /\ out[m].count = 1

\* C2: of two consecutive frames with no reset acknowledged between them,
\* the later one reports a pulse count at least as large as the earlier one.
C2_CountNonDecreasing ==
  \A m \in 1..Len(out) : \A n \in 1..Len(out) :
    (m < n /\ IsFrame(out[m]) /\ IsFrame(out[n])
       /\ out[m].hasCount /\ out[n].hasCount
       /\ NoFrameBetween(m, n) /\ NoResetBetween(m, n))
    => out[n].count >= out[m].count

\* C2 witness: two consecutive frames without a reset between them, the
\* later one with a larger count.
C2_Witness ==
  \E m \in 1..Len(out) : \E n \in 1..Len(out) :
    /\ m < n /\ IsFrame(out[m]) /\ IsFrame(out[n])
    /\ NoFrameBetween(m, n) /\ NoResetBetween(m, n)
    /\ out[n].count > out[m].count

\* C3: an edge that follows the previous edge by less than the debounce
\* threshold belongs to the same cluster and does not increase the pulse
\* count; an edge that opens a cluster increases it by one.
C3_ClusterCountsOnce ==
  [][(edges' = edges + 1 /\ Attached /\ intEnabled)
       => pulseCount' = pulseCount
                        + (IF edgeGapUs' < MIN_PULSE_US THEN 0 ELSE 1)]_vars

\* C8: when the amplifier never reports ready, startup is over and the
\* banner is out once setup(), which begins at millis() = 0, has waited for
\* it longer than the bounded readiness wait.
C8_StartupCompletesWithoutAmp ==
  (/\ variant # "pulse" /\ ~ampPresent /\ pc # "setup"
   /\ now > READY_TIMEOUT_MS)
    => \E k \in 1..Len(out) : out[k].kind = "text" /\ out[k].text = "ready"

\* C9: a printed frame carries the weight field if and only if the
\* amplifier was ready when the frame fell due and was sampled.
C9_WeightIffReadyWhenSampled ==
  [][EmitStep => (Last(out').hasWeight <=> readyAtDue)]_vars

\* the acknowledgement each command byte is to get
AckOf(c) ==
  CASE c = "r" -> "reset-ack"
    [] c = "o" -> "valve-open"
    [] c = "c" -> "valve-closed"
    [] c = "t" -> "tare-ack"
\* the acknowledgement lines printed so far, oldest first
AcksPrinted ==
  LET a == SelectSeq(out, LAMBDA l : l.kind = "text" /\ l.text # "ready")
  IN  [k \in 1..Len(a) |-> a[k].text]

\* C10: whenever the main loop is not in the middle of a command, the
\* acknowledgement lines printed are, in order, exactly one per command
\* byte read, each the one that belongs to its command.
C10_OneAckPerCommand ==
  (pc \notin {"r_cli", "r_clr", "r_sei", "r_ack"})
    => AcksPrinted = [k \in 1..Len(consumed) |-> AckOf(consumed[k])]

\* C4: the page goes from Armed to Running only on a live frame whose pulse
\* count differs from the count of the live frame before it, whatever was
\* armed in between.
C4_RunningOnlyOnChange ==
  [][(armed /\ ~running /\ running' /\ lastSeen # <<>>)
       => lastSeen' # lastSeen]_vars

\* C5: when Reset was clicked while Armed with a pending start and only live
\* frames were handled since, the page is Armed with the start still pending
\* and a baseline of 0 once 'counter-reset' has been handled.
C5_ResetKeepsPendingStart ==
  [][(resetTrack /\ owed'.counterReset < owed.counterReset)
       => (armed' /\ startPending' /\ ~running' /\ lastPulse' = 0)]_vars

C7_StartedWhileActiveIgnored ==
  [][(owed'.started < owed.started /\ (armed \/ running))
       => (/\ armed' = armed /\ running' = running
           /\ startPending' = startPending
           /\ lastPulse' = lastPulse
           /\ currentRun' = currentRun)]_vars

\* the commands the sketches know
KnownCmds == {"r", "o", "c"}
\* the acknowledgements the sketches print for the bytes read so far
AcksDue ==
  LET k == SelectSeq(consumed, LAMBDA c : c \in KnownCmds)
  IN  [n \in 1..Len(k) |-> AckOf(k[n])]
\* how many 'r' bytes have been read so far
ResetsRead == Len(SelectSeq(consumed, LAMBDA c : c = "r"))

IsBanner(l) == l.kind = "text" /\ l.text = "ready"

\* C12: the banner 'ready' is printed at most once, it is out once the
\* main loop runs, and every data frame and every acknowledgement line
\* comes after it.
C12_BannerOnceBeforeData ==
  /\ Len(SelectSeq(out, IsBanner)) <= 1
  /\ (pc \notin {"setup", "tare", "banner"})
       => Len(SelectSeq(out, IsBanner)) = 1
  /\ \A m \in 1..Len(out) :
       ~IsBanner(out[m]) => \E k \in 1..(m-1) : IsBanner(out[k])

\* the step is ws.onmessage handling a live frame
LiveStep ==
  /\ ev' = "live" /\ lastTime' = hnow
  /\ hnow' = hnow /\ devCount' = devCount

\* C13: once Stop or Reset has been clicked while a run was Running, no live
\* frame handled afterwards appends a sample to that run.
C13_CancelStopsSampling ==
  [][(LiveStep /\ cancelled # 0 /\ cancelled <= Len(runs))
       => runs'[cancelled].data = runs[cancelled].data]_vars

\* the live frame of this step puts the first sample on the current run
FirstSampleStep ==
  /\ LiveStep /\ runs' # runs /\ currentRun' # 0
  /\ Len(runs'[currentRun'].data) = 1

\* C14: the first sample recorded in a run is the raw rate of the observation
\* that recorded it, with no smoothing.
C14_FirstSampleUnsmoothed ==
  [][FirstSampleStep
       => runs'[currentRun'].data[1].y
            = RawPps(devCount - lastPulse, hnow - lastTime)]_vars

Outliers(c) == {k \in 1..Len(obs) : obs[k].raw # c}

\* C16: when the raw rates observed in a run are a constant c except for one
\* single outlier, the filtered rate recorded for the outlier and for every
\* later observation is c.
C16_MedianRemovesSpike ==
  (Len(obs) >= 3)
    => \A n \in 1..Len(obs) :
         LET c == obs[n].raw IN
           (Cardinality(Outliers(c)) = 1)
             => \A k \in 1..Len(obs) :
                  (obs[k].plotted /\ \E j \in Outliers(c) : k >= j)
                    => obs[k].filt = c

\* C18: a live frame handled while Running, with the count unchanged and
\* more than NO_FLOW_MS after the last change, sends 'stop' and leaves
\* armed, running and startPending false; a live frame sends 'stop' in no
\* other case: never while not Running and never within NO_FLOW_MS of the
\* last change.
C18_AutoStopOnlyAfterWindow ==
  [][LiveStep
       => LET late  == devCount = lastPulse /\ hnow - lastChange > NO_FLOW_MS
              fired == wsSent'.stop = wsSent.stop + 1
          IN  /\ (running /\ late)
                   => (fired /\ ~armed' /\ ~running' /\ ~startPending')
              /\ ~(running /\ late) => wsSent' = wsSent]_vars

\* C18 witness: the page right after an auto-stop: the last handler was the
\* live one, a stop is sent that no Stop click sent, nothing is armed.
C18_Witness ==
  /\ ev = "live" /\ lastTime = hnow
  /\ hnow - lastChange > NO_FLOW_MS
  /\ wsSent.stop = 1 /\ stopDisabled = FALSE
  /\ ~armed /\ ~running /\ ~startPending /\ currentRun # 0

\* countPulse() runs in this step
HandlerRuns == sinceReset' = sinceReset + 1

\* C17: countPulse() runs only with the interrupt enabled or at the very
\* step that re-enables it, never inside a critical section; the frame's
\* read of pulseCount and the reset's write of 0 happen with the interrupt
\* disabled, so the frame's copy is the value the counter holds and the
\* counter is 0 right after the reset's write.
C17_CounterUnderCriticalSection ==
  [][/\ HandlerRuns
          => (intEnabled' /\ (intEnabled \/ pc \in {"r_sei", "f_sei"}))
     /\ (pc = "f_read" /\ pc' = "f_sei")
          => (~intEnabled /\ count' = pulseCount /\ pulseCount' = pulseCount)
     /\ (pc = "r_clr" /\ pc' = "r_sei")
          => (~intEnabled /\ pulseCount' = 0)
     /\ (pc \in {"r_clr", "f_read"} /\ pc' = pc)
          => (~intEnabled /\ pulseCount' = pulseCount)]_vars

\* C17 witness: an edge arrived inside the critical section of a reset: the
\* counter has been cleared, the edge is latched and not yet counted.
C17_Witness ==
  /\ pc = "r_sei" /\ ~intEnabled /\ intPending
  /\ pulseCount = 0 /\ sinceReset = 0 /\ edges > 0

\* a frame is due: setup() is over and the interval has elapsed since the
\* last frame
Due ==
  /\ variant # "scale"
  /\ pc \notin {"setup", "tare", "banner"}
  /\ SubUL(now, lastPrint) >= Interval
NFrames == Len(Frames(out))

\* C19: whenever a frame is due, one more frame is eventually printed,
\* whatever command bytes arrive and whatever the amplifier does after
\* startup.
C19_FrameEventually ==
  \A n \in 0..(MaxFrames + MaxCmds + 1) :
    (Due /\ NFrames = n) ~> (NFrames > n)

\* C20: a frame is printed only when at least the interval has elapsed since
\* the frame before it, the difference taken in unsigned arithmetic: the
\* check lets a frame through exactly when (now - lastPrint) mod 2^w has
\* reached the interval, also after the clock has wrapped, and the time
\* stamps of two consecutive frames differ by at least the interval.
C20_FrameSpacing ==
  [][/\ EmitStep
          => (/\ Last(out').ts = nowL
              /\ Frames(out) # <<>>
                   => SubUL(Last(out').ts, Last(Frames(out)).ts) >= Interval)
     /\ (pc = "check" /\ pc' # "check" /\ variant # "scale")
          => (pc' = "f_cli" <=> SubUL(now, lastPrint) >= Interval)
     /\ (pc = "check" /\ pc' # "check" /\ variant = "scale")
          => SubUL(now, lastPrint) >= Interval]_vars

\* C20 witness: two consecutive frames on either side of the wrap: the later
\* one carries the smaller time stamp.
C20_Witness ==
  \E m \in 1..Len(out) : \E n \in 1..Len(out) :
    /\ m < n /\ IsFrame(out[m]) /\ IsFrame(out[n]) /\ NoFrameBetween(m, n)
    /\ out[n].ts < out[m].ts
    /\ SubUL(out[n].ts, out[m].ts) >= Interval

\* C21: the flags armed, running and startPending take only the three
\* combinations of Idle/Stopped, Armed and Running: running implies armed,
\* startPending implies armed and not running, and a run that is Running
\* has a current run object.
C21_FlagCombinations ==
  /\ <<armed, running, startPending>>
       \in {<<FALSE, FALSE, FALSE>>, <<TRUE, FALSE, TRUE>>, <<TRUE, TRUE, FALSE>>}
  /\ running => (currentRun # 0 /\ currentRun <= Len(runs))

\* C21 witness: Running, entered from Armed, with its run object and a
\* finished run before it.
C21_Witness ==
  /\ armed /\ running /\ ~startPending
  /\ currentRun = 2 /\ Len(runs) = 2
  /\ runs[1].end # <<>>

\* the data of run r before and after the step
DataBefore(r) == IF r <= Len(runs) THEN runs[r].data ELSE <<>>
DataAfter(r)  == runs'[r].data

RunOver == ~armed /\ ~running /\ runs # <<>> /\ owed.started = 0
\* a new start can be issued and accepted
CanStart == ~startDisabled /\ ~armed /\ ~running

\* C23: once a run is over, by whatever path, the page eventually is idle
\* with Start enabled.
C23_StartAgain == RunOver ~> CanStart

====
